---- MODULE Spec2Model ----
(***************************************************************************)
(* A model of the tile downloader (app/core/downloader.py) and of the      *)
(* download task registry (app/api/download.py) of tif-downloader.         *)
(*                                                                         *)
(* Part 1 models one batch of TileDownloader.download_tiles: one coroutine *)
(* per tile (_download_tile), the asyncio.Semaphore admission gate, the    *)
(* as_completed loop of the driving routine and the progress observer.     *)
(* Part 2 models the task registry kept on download_tiles_with_progress,   *)
(* the background task _download_task and the synchronous download route.  *)
(* Parts 3, 4 and 5 model the functions of app/core/exporter.py, tile.py   *)
(* and merger.py, each called once on arguments drawn in the initial state.*)
(* Part 6 models the routes that name a task: the progress stream, the     *)
(* result download, save_to_file and the delayed cleanup.                  *)
(***************************************************************************)
EXTENDS Integers, Sequences, FiniteSets, TLC

\* ------------------------------------------------------------------ bounds
\* Largest tile list handed to download_tiles.
MaxTiles == 2
\* Largest value passed for the constructor arguments max_concurrent / retry_times.
MaxArg == 2
\* Most GET requests one batch may need: len(tiles) * (retry_times + 1).
MaxRequests == 7
\* Rows of the tile grid the tile list is laid out on.
GridRows == 2

\* ------------------------------------------------------- program constants
\* DOWNLOAD_SETTINGS["max_concurrent"]
DefaultMaxConcurrent == 10
\* DOWNLOAD_SETTINGS["retry_times"]
DefaultRetryTimes == 3

\* Python's None for an optional constructor argument; Some(n) is the value n.
None == << >>
Some(n) == << n >>

\* The arguments a caller can pass for max_concurrent and retry_times.
ArgValues == {None} \cup {Some(n) : n \in 0 .. MaxArg}

\* `arg or default` of TileDownloader.__init__: None and 0 are both falsy.
PyOr(arg, default) == IF arg = None \/ arg = Some(0) THEN default ELSE arg[1]

\* The (x, y) of the i-th tile of the list: get_tiles_in_bounds walks the grid
\* column by column (x in the outer loop, y in the inner one), so the
\* coordinates of a list are distinct.
TileXY(i) == << (i - 1) \div GridRows, (i - 1) % GridRows >>

\* What a tile server can answer with: an image in some mode.
Bodies == { [mode |-> "RGB", px |-> 1], [mode |-> "P", px |-> 2] }

\* image.convert("RGB") of line 142-143: the pixels in mode RGB.
ToRGB(body) == [mode |-> "RGB", px |-> body.px]

\* How an attempt that is not a decodable HTTP 200 ends.
FailureKinds == {"http", "timeout", "client", "other"}

VARIABLES
    arg_max_concurrent,  \* the max_concurrent argument of TileDownloader(...)
    arg_retry_times,     \* the retry_times argument of TileDownloader(...)
    max_concurrent,      \* self.max_concurrent
    retry_times,         \* self.retry_times
    has_callback,        \* whether download_tiles got a progress_callback
    ntiles,              \* len(tiles)
    batch,               \* position of download_tiles: idle, running, returned, raised
    semaphore,           \* free slots of self._semaphore
    pc,                  \* position of each _download_tile coroutine
    attempt,             \* loop variable `attempt` of each coroutine
    last_error,          \* local last_error of each coroutine
    sent,                \* number of GET requests each coroutine has issued
    body,                \* what the server answered to the coroutine's last 200
    result,              \* the DownloadResult each coroutine returned
    done_queue,          \* finished coroutines in completion order (as_completed)
    todo,                \* results as_completed has still to yield
    progress,            \* the DownloadProgress of the batch
    tile_images,         \* the result mapping (x, y) -> image
    callback_log,        \* the snapshots the progress observer was called with
    registry,            \* download_tiles_with_progress.tasks
    task_pc,             \* position of each background _download_task
    last_response,       \* the answer to the last request of a download route
    last_request,        \* the route and the body of that request
    args,                \* the arguments of a call of one of the pure functions
    called,              \* the function called with them, "none" before the call
    ret,                 \* what the call returned or raised
    streams,             \* the progress streams opened, in the order they were opened
    poll_response,       \* the answer to the last request that named a task
    cleanup              \* the tasks a _cleanup_task is scheduled for

batch_vars == << arg_max_concurrent, arg_retry_times, max_concurrent, retry_times,
                 has_callback, ntiles, batch, semaphore, pc, attempt, last_error,
                 sent, body, result, done_queue, todo, progress, tile_images,
                 callback_log >>
task_vars == << registry, task_pc, last_response, last_request >>
pure_vars == << args, called, ret >>
poll_vars == << streams, poll_response, cleanup >>
vars == << batch_vars, task_vars, pure_vars, poll_vars >>

Tiles == 1 .. ntiles

\* DownloadProgress(): the dataclass defaults.
NewProgress == [total |-> 0, completed |-> 0, failed |-> 0, status |-> "pending"]

\* No DownloadResult yet.
NoResult == [success |-> FALSE, image |-> None, error |-> "unset", raised |-> FALSE]


\* ---------------------------------------------------------------- Part 1
\* Mutant: a gate that never blocks.
SemCanAcquireAlways(s) == TRUE

\* asyncio.Semaphore.acquire: a slot is taken only while one is free.
SemCanAcquire(s) == s > 0

\* Mutant: a slot given back twice.
SemReleaseTwice(s) == s + 2

\* Mutant: a slot that is never given back.
SemReleaseNever(s) == s

\* Leaving `async with self._semaphore`: the slot goes back to the gate.
SemRelease(s) == s + 1

\* Mutant: only the network exceptions are caught, a decode error escapes.
CaughtNetworkOnly(kind) == kind \in {"timeout", "client"}

\* The except clauses of _download_tile: asyncio.TimeoutError, aiohttp.ClientError
\* and Exception. A non-200 answer raises nothing.
Caught(kind) == kind \in {"timeout", "client", "other"}

\* The text _download_tile keeps in last_error.
ErrorText(kind) ==
    CASE kind = "http" -> "HTTP"
      [] kind = "timeout" -> "Timeout"
      [] OTHER -> "str(e)"

\* `for attempt in range(self.retry_times + 1)`: whether another attempt follows
\* attempt number a (also the guard of the backoff sleep, line 156).
MoreAttempts(a, rt) == a < rt

\* DownloadResult(tile, success=True, image=image)
Success(image) == [success |-> TRUE, image |-> Some(image), error |-> "None", raised |-> FALSE]

\* DownloadResult(tile, success=False, error=last_error)
Failure(error) == [success |-> FALSE, image |-> None, error |-> error, raised |-> FALSE]

\* A coroutine that ended with an exception no clause caught.
Raised == [success |-> FALSE, image |-> None, error |-> "exception", raised |-> TRUE]

\* `if result.success and result.image` of the as_completed loop.
IsSuccess(r) == r.success /\ r.image # None

\* Mutant: the else is lost, a success is counted as failed too.
CountResultNoElse(p, r) ==
    IF r.success /\ r.image # None
    THEN [p EXCEPT !.completed = @ + 1, !.failed = @ + 1]
    ELSE [p EXCEPT !.failed = @ + 1]

\* progress.completed += 1 / progress.failed += 1
CountResult(p, r) ==
    IF IsSuccess(r) THEN [p EXCEPT !.completed = @ + 1]
                    ELSE [p EXCEPT !.failed = @ + 1]

\* Mutant: the mapping is keyed by the tile's column alone.
StoreResultByColumn(m, xy, r) ==
    IF r.success /\ r.image # None
    THEN [k \in DOMAIN m \cup {<< xy[1], 0 >>} |->
             IF k = << xy[1], 0 >> THEN r.image[1] ELSE m[k]]
    ELSE m

\* tile_images[(result.tile.x, result.tile.y)] = result.image
StoreResult(m, xy, r) ==
    IF IsSuccess(r)
    THEN [k \in DOMAIN m \cup {xy} |-> IF k = xy THEN r.image[1] ELSE m[k]]
    ELSE m

\* Mutant: the observer is called for every second tile only.
NotifyEverySecond(log, p) ==
    IF (p.completed + p.failed) % 2 = 0
    THEN Append(log, [completed |-> p.completed, failed |-> p.failed, total |-> p.total])
    ELSE log

\* `if progress_callback: progress_callback(progress)`
Notify(log, p) == Append(log, [completed |-> p.completed, failed |-> p.failed, total |-> p.total])

\* progress.status at the end of download_tiles.
FinalStatus(p) == IF p.failed = 0 THEN "completed" ELSE "completed_with_errors"

EmptyMap == [k \in {} |-> None]

\* TileDownloader(...) followed by the call of download_tiles(tiles, callback):
\* the state after construction, for every argument and tile list in the bounds.
BatchInit ==
    /\ arg_max_concurrent \in ArgValues
    /\ arg_retry_times \in ArgValues
    /\ max_concurrent = PyOr(arg_max_concurrent, DefaultMaxConcurrent)
    /\ retry_times = PyOr(arg_retry_times, DefaultRetryTimes)
    /\ has_callback \in BOOLEAN
    /\ ntiles \in 0 .. MaxTiles
    /\ ntiles * (retry_times + 1) <= MaxRequests
    /\ batch = "idle"
    /\ semaphore = 0
    /\ pc = [t \in 1 .. ntiles |-> "new"]
    /\ attempt = [t \in 1 .. ntiles |-> 0]
    /\ last_error = [t \in 1 .. ntiles |-> "None"]
    /\ sent = [t \in 1 .. ntiles |-> 0]
    /\ body = [t \in 1 .. ntiles |-> None]
    /\ result = [t \in 1 .. ntiles |-> NoResult]
    /\ done_queue = << >>
    /\ todo = 0
    /\ progress = NewProgress
    /\ tile_images = EmptyMap
    /\ callback_log = << >>

\* download_tiles up to the as_completed loop: the progress record, the gate,
\* the session and one scheduled coroutine per tile.
Start ==
    /\ batch = "idle"
    /\ batch' = "running"
    /\ progress' = [NewProgress EXCEPT !.total = ntiles, !.status = "downloading"]
    /\ tile_images' = EmptyMap
    /\ semaphore' = max_concurrent
    /\ pc' = [t \in Tiles |-> "gate"]
    /\ todo' = ntiles
    /\ UNCHANGED << arg_max_concurrent, arg_retry_times, max_concurrent, retry_times,
                    has_callback, ntiles, attempt, last_error, sent, body, result,
                    done_queue, callback_log, task_vars, poll_vars, pure_vars >>

\* A coroutine passes the admission gate (async with self._semaphore).
Acquire(t) ==
    /\ batch = "running"
    /\ pc[t] = "gate"
    /\ SemCanAcquire(semaphore)
    /\ semaphore' = semaphore - 1
    /\ pc' = [pc EXCEPT ![t] = "jitter"]
    /\ UNCHANGED << arg_max_concurrent, arg_retry_times, max_concurrent, retry_times,
                    has_callback, ntiles, batch, attempt, last_error, sent, body,
                    result, done_queue, todo, progress, tile_images, callback_log, task_vars, poll_vars, pure_vars >>

\* The jittered sleep is over and the GET request is issued, the slot still held
\* (self.delay is `delay or 0.1`, never 0, so the sleep is always taken).
SendRequest(t) ==
    /\ batch = "running"
    /\ pc[t] = "jitter"
    /\ pc' = [pc EXCEPT ![t] = "request"]
    /\ sent' = [sent EXCEPT ![t] = @ + 1]
    /\ UNCHANGED << arg_max_concurrent, arg_retry_times, max_concurrent, retry_times,
                    has_callback, ntiles, batch, semaphore, attempt, last_error, body,
                    result, done_queue, todo, progress, tile_images, callback_log, task_vars, poll_vars, pure_vars >>

\* HTTP 200 with a decodable image: the coroutine returns its DownloadResult.
AttemptSucceeds(t, b) ==
    /\ batch = "running"
    /\ pc[t] = "request"
    /\ body' = [body EXCEPT ![t] = Some(b)]
    /\ result' = [result EXCEPT ![t] = Success(ToRGB(b))]
    /\ semaphore' = SemRelease(semaphore)
    /\ pc' = [pc EXCEPT ![t] = "done"]
    /\ attempt' = [attempt EXCEPT ![t] = 0]
    /\ last_error' = [last_error EXCEPT ![t] = "None"]
    /\ done_queue' = Append(done_queue, t)
    /\ UNCHANGED << arg_max_concurrent, arg_retry_times, max_concurrent, retry_times,
                    has_callback, ntiles, batch, sent, todo, progress, tile_images,
                    callback_log, task_vars, poll_vars, pure_vars >>

\* A non-200 answer, a timeout, a transport error or an undecodable body: the
\* slot is released, then either the backoff sleep or the failed result.
AttemptFails(t, kind) ==
    /\ batch = "running"
    /\ pc[t] = "request"
    /\ semaphore' = SemRelease(semaphore)
    /\ IF (kind = "http" \/ Caught(kind)) /\ MoreAttempts(attempt[t], retry_times)
       THEN /\ last_error' = [last_error EXCEPT ![t] = ErrorText(kind)]
            /\ pc' = [pc EXCEPT ![t] = "backoff"]
            /\ UNCHANGED << attempt, result, done_queue >>
       ELSE /\ pc' = [pc EXCEPT ![t] = "done"]
            /\ result' = [result EXCEPT ![t] =
                    IF kind = "http" \/ Caught(kind) THEN Failure(ErrorText(kind))
                                                     ELSE Raised]
            /\ attempt' = [attempt EXCEPT ![t] = 0]
            /\ last_error' = [last_error EXCEPT ![t] = "None"]
            /\ done_queue' = Append(done_queue, t)
    /\ UNCHANGED << arg_max_concurrent, arg_retry_times, max_concurrent, retry_times,
                    has_callback, ntiles, batch, sent, body, todo, progress,
                    tile_images, callback_log, task_vars, poll_vars, pure_vars >>

\* The backoff sleep between two attempts is over: the next loop iteration.
NextAttempt(t) ==
    /\ batch = "running"
    /\ pc[t] = "backoff"
    /\ attempt' = [attempt EXCEPT ![t] = @ + 1]
    /\ pc' = [pc EXCEPT ![t] = "gate"]
    /\ UNCHANGED << arg_max_concurrent, arg_retry_times, max_concurrent, retry_times,
                    has_callback, ntiles, batch, semaphore, last_error, sent, body,
                    result, done_queue, todo, progress, tile_images, callback_log, task_vars, poll_vars, pure_vars >>

\* One iteration of `for coro in asyncio.as_completed(tasks)`: the next finished
\* coroutine is awaited, counted, stored and reported to the observer.
ProcessResult ==
    /\ batch = "running"
    /\ done_queue # << >>
    /\ LET t == Head(done_queue)
           r == result[t]
       IN  /\ done_queue' = Tail(done_queue)
           /\ todo' = todo - 1
           /\ IF r.raised
              THEN /\ batch' = "raised"
                   /\ UNCHANGED << progress, tile_images, callback_log >>
              ELSE /\ tile_images' = StoreResult(tile_images, TileXY(t), r)
                   /\ progress' = CountResult(progress, r)
                   /\ callback_log' = IF has_callback
                                      THEN Notify(callback_log, progress')
                                      ELSE callback_log
                   /\ UNCHANGED batch
    /\ UNCHANGED << arg_max_concurrent, arg_retry_times, max_concurrent, retry_times,
                    has_callback, ntiles, semaphore, pc, attempt, last_error, sent,
                    body, result, task_vars, poll_vars, pure_vars >>

\* as_completed is exhausted: the session closes and download_tiles returns.
Return ==
    /\ batch = "running"
    /\ todo = 0
    /\ batch' = "returned"
    /\ progress' = [progress EXCEPT !.status = FinalStatus(progress)]
    /\ UNCHANGED << arg_max_concurrent, arg_retry_times, max_concurrent, retry_times,
                    has_callback, ntiles, semaphore, pc, attempt, last_error, sent,
                    body, result, done_queue, todo, tile_images, callback_log, task_vars, poll_vars, pure_vars >>

\* ---------------------------------------------------------------- Part 2
\* Most tasks registered in one run.
MaxTasks == 2

\* The ceiling on the estimated tile count (max_tiles of both download routes).
MaxTileCount == 1000000

\* The fields of the request model DownloadRequest.
RequestFields == {"bounds", "polygon", "zoom", "source", "format", "crop_to_shape", "proxy"}

\* The parameters of TileDownloader.__init__.
InitParameters == {"source", "max_concurrent", "retry_times", "timeout", "delay", "proxy"}

\* The keywords of the call TileDownloader(source=request.source,
\* proxy=request.proxy, tianditu_token=request.tianditu_token), each read from
\* the request attribute of the same name.
CtorKeywords == {"source", "proxy", "tianditu_token"}

\* What that call raises: reading an attribute the request model does not have
\* is an AttributeError, passing a keyword __init__ does not take a TypeError.
CreateDownloaderError ==
    IF ~ (CtorKeywords \subseteq RequestFields) THEN "AttributeError"
    ELSE IF ~ (CtorKeywords \subseteq InitParameters) THEN "TypeError"
    ELSE "None"

\* The keys of TILE_SOURCES a request may name, and one that is no key.
KnownSources == {"google_satellite", "osm"}
Sources == KnownSources \cup {"bogus"}

\* The formats the synchronous route accepts, and one it does not.
KnownFormats == {"geotiff", "png", "jpeg", "jpg"}
Formats == {"png", "bmp"}

\* The requests of the model: which region the request carries, its source and
\* format, and the tile count estimate_tile_count gives for its region and zoom.
\* ordered says whether the region has west <= east; a region with west > east
\* has x_max <= x_min, so estimate_tile_count gives it 1 or less. A request
\* without a region has no count: the routes answer it before they compute one.
Requests ==
    {req \in [shape : {"bounds", "polygon", "none"}, source : Sources, format : Formats,
              ordered : BOOLEAN, tile_count : {0, 1, 4, MaxTileCount + 1}] :
        /\ req.ordered => req.tile_count >= 1
        /\ ~ req.ordered => req.tile_count <= 1 /\ req.shape = "bounds"
        /\ req.shape = "none" => req.tile_count = 1}

\* Mutant: the checks without the ceiling on the tile count.
ValidateProgressRequestNoCeiling(req) ==
    IF req.shape = "none" THEN "Either bounds or polygon is required"
    ELSE IF req.source \notin KnownSources THEN "Unknown source"
    ELSE "None"

\* The checks of download_tiles_with_progress before a task is registered:
\* the detail of the HTTP 400 raised, or "None".
ValidateProgressRequest(req) ==
    IF req.shape = "none" THEN "Either bounds or polygon is required"
    ELSE IF req.source \notin KnownSources THEN "Unknown source"
    ELSE IF req.tile_count > MaxTileCount THEN "too many tiles"
    ELSE "None"

\* The checks of the synchronous download route before any tile is fetched.
ValidateSyncRequest(req) ==
    IF req.shape = "none" THEN "Either bounds or polygon is required"
    ELSE IF req.source \notin KnownSources THEN "Unknown source"
    ELSE IF req.format \notin KnownFormats THEN "Unsupported format"
    ELSE IF req.tile_count > MaxTileCount THEN "too many tiles"
    ELSE "None"

\* The entry download_tiles_with_progress stores for a new task.
NewEntry(tile_count) ==
    [status |-> "pending", progress |-> 0, total |-> tile_count, completed |-> 0,
     failed |-> None, error |-> None]

\* Mutant: the start of the task also sets the failed count.
EntryOnStartCounting(e) == [e EXCEPT !.status = "downloading", !.failed = Some(0)]

\* tasks[task_id]['status'] = 'downloading' at the start of _download_task.
EntryOnStart(e) == [e EXCEPT !.status = "downloading"]

\* Mutant: the except clause puts the task back to pending.
EntryOnErrorRequeue(e, text) == [e EXCEPT !.status = "pending", !.error = Some(text)]

\* The except clause of _download_task: status failed and the error text.
EntryOnError(e, text) == [e EXCEPT !.status = "failed", !.error = Some(text)]

\* Mutant: a write that lands in every entry of the registry.
UpdateEntryEverywhere(entries, id, e) == [k \in DOMAIN entries |-> e]

\* tasks[task_id][...] = ...: a write of _download_task to its own entry.
UpdateEntry(entries, id, e) == [entries EXCEPT ![id] = e]

\* No request answered yet.
NoResponse == [code |-> "none", detail |-> "none"]

\* No request received yet.
NoRequest == [route |-> "none", request |-> "none"]

\* A request body posted to one of the two download routes.
Call(route, req) == [route |-> route, request |-> req]

\* An HTTPException(status_code, detail), or the 500 the server answers an
\* unhandled exception with.
Response(code, detail) == [code |-> code, detail |-> detail]

\* No request that names a task answered yet.
NoAnswer == [route |-> "none", task_id |-> 0, code |-> "none", detail |-> "none"]

\* What a route answers a request that names a task.
Answer(route, id, code, detail) ==
    [route |-> route, task_id |-> id, code |-> code, detail |-> detail]

\* The registry part at rest, for the specifications of the batch alone.
TaskIdle ==
    /\ registry = << >>
    /\ task_pc = << >>
    /\ last_response = NoResponse
    /\ last_request = NoRequest
    /\ streams = << >>
    /\ poll_response = NoAnswer
    /\ cleanup = {}

\* No pure function called, for the specifications of the batch and the registry.
PureIdle ==
    /\ args = None
    /\ called = "none"
    /\ ret = None

\* The batch part at rest, for the specification of the registry.
BatchIdle ==
    /\ BatchInit
    /\ arg_max_concurrent = None
    /\ arg_retry_times = None
    /\ has_callback
    /\ ntiles = 0

\* POST /api/download_with_progress: a rejected request registers nothing; an
\* accepted one stores its entry and schedules _download_task.
SubmitWithProgress(req) ==
    /\ Len(task_pc) < MaxTasks
    /\ ValidateProgressRequest(req) = "None"
    /\ LET task_id == Len(task_pc) + 1
       IN  /\ registry' = [k \in DOMAIN registry \cup {task_id} |->
                              IF k = task_id THEN NewEntry(req.tile_count) ELSE registry[k]]
           /\ task_pc' = Append(task_pc, "created")
    /\ last_response' = Response("200", "task registered")
    /\ last_request' = Call("download_with_progress", req)
    /\ UNCHANGED << batch_vars, pure_vars, poll_vars >>

\* _download_task begins: the status becomes downloading, the tile list and the
\* grid are computed.
TaskStart(id) ==
    /\ task_pc[id] = "created"
    /\ registry' = UpdateEntry(registry, id, EntryOnStart(registry[id]))
    /\ task_pc' = [task_pc EXCEPT ![id] = "create_downloader"]
    /\ UNCHANGED << batch_vars, pure_vars, poll_vars, last_response, last_request >>

\* _download_task constructs its TileDownloader; an exception goes to the
\* except clause, which ends the task failed. CreateDownloaderError is never
\* "None": the call reads request.tianditu_token, which DownloadRequest does not
\* have, so no task gets past this line and download_tiles, progress_callback
\* and the merging, exporting and completed writes of _download_task are never
\* run by a task.
TaskCreateDownloader(id) ==
    /\ task_pc[id] = "create_downloader"
    /\ IF CreateDownloaderError # "None"
       THEN /\ registry' = UpdateEntry(registry, id, EntryOnError(registry[id], CreateDownloaderError))
            /\ task_pc' = [task_pc EXCEPT ![id] = "finished"]
       ELSE /\ task_pc' = [task_pc EXCEPT ![id] = "download"]
            /\ UNCHANGED registry
    /\ UNCHANGED << batch_vars, pure_vars, poll_vars, last_response, last_request >>

\* POST /api/download: the checks, then the construction of the TileDownloader;
\* an exception that is no HTTPException is answered with a 500.
DownloadSync(req) ==
    /\ last_response' =
          IF ValidateSyncRequest(req) # "None"
          THEN Response("400", ValidateSyncRequest(req))
          ELSE IF CreateDownloaderError # "None"
          THEN Response("500", "Internal Server Error")
          ELSE Response("downloading", "none")
    /\ last_request' = Call("download", req)
    /\ UNCHANGED << batch_vars, pure_vars, poll_vars, registry, task_pc >>

\* download_tiles_with_progress answers a request its checks reject with 400.
RejectWithProgress(req) ==
    /\ ValidateProgressRequest(req) # "None"
    /\ last_response' = Response("400", ValidateProgressRequest(req))
    /\ last_request' = Call("download_with_progress", req)
    /\ UNCHANGED << batch_vars, pure_vars, poll_vars, registry, task_pc >>

Init == BatchInit /\ TaskIdle /\ PureIdle

Next ==
    \/ Start
    \/ \E t \in Tiles : Acquire(t)
    \/ \E t \in Tiles : SendRequest(t)
    \/ \E t \in Tiles : \E b \in Bodies : AttemptSucceeds(t, b)
    \/ \E t \in Tiles : \E kind \in FailureKinds : AttemptFails(t, kind)
    \/ \E t \in Tiles : NextAttempt(t)
    \/ ProcessResult
    \/ Return

\* One batch of download_tiles.
Spec == Init /\ [][Next]_vars

TaskInit == BatchIdle /\ TaskIdle /\ PureIdle

TaskNext ==
    \/ \E req \in Requests : SubmitWithProgress(req)
    \/ \E req \in Requests : RejectWithProgress(req)
    \/ \E id \in DOMAIN registry : TaskStart(id)
    \/ \E id \in DOMAIN registry : TaskCreateDownloader(id)
    \/ \E req \in Requests : DownloadSync(req)

\* The task registry, its background tasks and the synchronous route.
TaskSpec == TaskInit /\ [][TaskNext]_vars

\* One batch under the scheduling of the event loop: a coroutine that can run
\* runs, a sleep ends, and every request ends in an answer, an error or a timeout.
FairSpec == Spec /\ WF_vars(Next)

\* The registry under the scheduling of the event loop: a task handed to
\* asyncio.create_task is started, and a started task runs on to its end.
FairTaskSpec ==
    /\ TaskSpec
    /\ \A id \in 1 .. MaxTasks :
          /\ WF_vars(id \in DOMAIN registry /\ TaskStart(id))
          /\ WF_vars(id \in DOMAIN registry /\ TaskCreateDownloader(id))

\* ---------------------------------------------------------------- Part 3
\* exporter.py. An image is held by its mode and its size; encoded bytes by
\* their encoding and the mode they were encoded from.
Images == [mode : {"RGB", "RGBA"}, size : {<< 256, 256 >>}]

\* The format strings a caller may pass, in the spellings of the routes.
ExportFormats == {"geotiff", "GeoTIFF", "png", "jpeg", "jpg", "bmp"}

\* What the interpreter offers to export_geotiff_bytes: whether rasterio was
\* imported (RASTERIO_AVAILABLE), and whether its encoder raises.
Backends == [rasterio_available : BOOLEAN, encode_fails : BOOLEAN]

\* str.lower() on the format strings of the model.
Lower(format) == IF format = "GeoTIFF" THEN "geotiff" ELSE format

\* A call that returned a value, and one that raised an exception.
Returned(value) == [raised |-> "None", value |-> value]
Raises(exception) == [raised |-> exception, value |-> None]

\* export_geotiff_bytes: raises without rasterio or when the encoder fails,
\* else gives the three colour bands as GeoTIFF bytes.
export_geotiff_bytes(image, backend) ==
    IF ~ backend.rasterio_available THEN Raises("RuntimeError")
    ELSE IF backend.encode_fails THEN Raises("RasterioError")
    ELSE Returned([encoding |-> "GTiff", mode |-> "RGB", size |-> image.size])

\* export_png_bytes: the image saved as PNG, alpha channel kept.
export_png_bytes(image) == [encoding |-> "PNG", mode |-> image.mode, size |-> image.size]

\* export_jpeg_bytes: RGBA is converted to RGB, then saved as JPEG.
export_jpeg_bytes(image) == [encoding |-> "JPEG", mode |-> "RGB", size |-> image.size]

\* Mutant: the geotiff branch without its try/except.
export_image_no_fallback(image, format, backend) ==
    IF Lower(format) = "geotiff"
    THEN LET tiff == export_geotiff_bytes(image, backend)
         IN  IF tiff.raised = "None" THEN Returned(<< tiff.value, "image/tiff" >>)
             ELSE tiff
    ELSE IF Lower(format) = "png" THEN Returned(<< export_png_bytes(image), "image/png" >>)
    ELSE IF Lower(format) \in {"jpeg", "jpg"}
    THEN Returned(<< export_jpeg_bytes(image), "image/jpeg" >>)
    ELSE Raises("ValueError")

\* export_image without an output path: the bytes and their content type. The
\* geotiff branch catches every Exception of the encoder and falls back to PNG.
export_image(image, format, backend) ==
    IF Lower(format) = "geotiff"
    THEN LET tiff == export_geotiff_bytes(image, backend)
         IN  IF tiff.raised = "None" THEN Returned(<< tiff.value, "image/tiff" >>)
             ELSE Returned(<< export_png_bytes(image), "image/png" >>)
    ELSE IF Lower(format) = "png" THEN Returned(<< export_png_bytes(image), "image/png" >>)
    ELSE IF Lower(format) \in {"jpeg", "jpg"}
    THEN Returned(<< export_jpeg_bytes(image), "image/jpeg" >>)
    ELSE Raises("ValueError")

\* get_file_extension: the extension of a format, .tif for an unknown one.
get_file_extension(format) ==
    IF Lower(format) \in {"geotiff", "tiff", "tif"} THEN ".tif"
    ELSE IF Lower(format) = "png" THEN ".png"
    ELSE IF Lower(format) \in {"jpeg", "jpg"} THEN ".jpg"
    ELSE ".tif"

\* The arguments of one call of the exporter, drawn before the call.
ExportInit ==
    /\ BatchIdle
    /\ TaskIdle
    /\ args \in [image : Images, format : ExportFormats, backend : Backends]
    /\ called = "none"
    /\ ret = None

\* export_image(image, bounds, format) is called and returns or raises.
ExportImage ==
    /\ called = "none"
    /\ called' = "export_image"
    /\ ret' = export_image(args.image, args.format, args.backend)
    /\ UNCHANGED << batch_vars, task_vars, poll_vars, args >>

\* get_file_extension(format) is called.
GetFileExtension ==
    /\ called = "none"
    /\ called' = "get_file_extension"
    /\ ret' = Returned(get_file_extension(args.format))
    /\ UNCHANGED << batch_vars, task_vars, poll_vars, args >>

\* get_download_result: the content type read off the end of the filename.
ContentTypeOfFilename(extension) ==
    IF extension = ".tif" THEN "image/tiff"
    ELSE IF extension = ".png" THEN "image/png"
    ELSE "image/jpeg"

\* What _download_task stores of an export and get_download_result answers
\* with: the bytes of export_image, its content type dropped, under a filename
\* ending in get_file_extension(format), and the content type of that filename.
StoredResult ==
    /\ called = "export_image"
    /\ ret.raised = "None"
    /\ called' = "get_download_result"
    /\ ret' = [data |-> ret.value[1],
               extension |-> get_file_extension(args.format),
               content_type |-> ContentTypeOfFilename(get_file_extension(args.format))]
    /\ UNCHANGED << batch_vars, task_vars, poll_vars, args >>

ExportNext ==
    \/ ExportImage
    \/ GetFileExtension
    \/ StoredResult

\* One call of the exporter on drawn arguments.
ExportSpec == ExportInit /\ [][ExportNext]_vars

\* ---------------------------------------------------------------- Part 4
\* tile.py. The zooms of the model are 0 .. MaxZoom; the routes accept 1 .. 20
\* and get_optimal_zoom searches from 20 down.
MaxZoom == 5

\* TILE_SIZE of config.py: the side of a tile in pixels.
TILE_SIZE == 256

\* Coordinates are whole numbers of units. A longitude is held as lng / 180 and
\* a latitude as asinh(tan(lat)) / pi, its Web Mercator ordinate, both in units
\* of 1 / Half: lng = 180 is Half, the equator is 0, north is positive. A unit
\* is half a pixel of the deepest zoom, so every tile edge and every pixel edge
\* of every zoom up to MaxZoom is a whole number of units.
Half == (2 ^ MaxZoom) * TILE_SIZE

\* The constant 85.05112878 of latlng_to_tile_float. The ordinate reaches the
\* edge of the map at atan(sinh(pi)) = 85.0511287798066 degrees, which is Half;
\* the constant lies 2e-10 degrees beyond it, here one unit beyond.
LatLimit == Half + 1

Min(a, b) == IF a < b THEN a ELSE b
Max(a, b) == IF a > b THEN a ELSE b

\* A float that is num / den, den > 0.
Frac(num, den) == [num |-> num, den |-> den]

\* int(): truncation toward zero.
int(q) == IF q.num >= 0 THEN q.num \div q.den ELSE - ((- q.num) \div q.den)

\* latlng_to_tile_float: the latitude is clamped to the limit, then
\* x = (lng + 180) / 360 * n and y = (1 - asinh(tan(lat)) / pi) / 2 * n.
latlng_to_tile_float(lat, lng, zoom) ==
    LET clamped == Max(- LatLimit, Min(LatLimit, lat))
        n == 2 ^ zoom
    IN  << Frac((lng + Half) * n, 2 * Half), Frac((Half - clamped) * n, 2 * Half) >>

\* Mutant: the tile indices without the clamp to 0 .. n - 1.
latlng_to_tile_unclamped(lat, lng, zoom) ==
    LET xy == latlng_to_tile_float(lat, lng, zoom)
    IN  << int(xy[1]), int(xy[2]) >>

\* latlng_to_tile: the truncated coordinates, clamped to 0 .. n - 1.
latlng_to_tile(lat, lng, zoom) ==
    LET xy == latlng_to_tile_float(lat, lng, zoom)
        n == 2 ^ zoom
    IN  << Max(0, Min(n - 1, int(xy[1]))), Max(0, Min(n - 1, int(xy[2]))) >>

\* Mutant: the bounds of the tile one row further south.
tile_to_latlng_next_row(x, y, zoom) ==
    LET span == (2 * Half) \div (2 ^ zoom)
    IN  [north |-> Half - (y + 1) * span, south |-> Half - (y + 2) * span,
         east |-> (x + 1) * span - Half, west |-> x * span - Half]

\* tile_to_latlng: west = x / n * 360 - 180, east the same of x + 1, north the
\* latitude of ordinate 1 - 2 * y / n, south the same of y + 1.
tile_to_latlng(x, y, zoom) ==
    LET span == (2 * Half) \div (2 ^ zoom)
    IN  [north |-> Half - y * span, south |-> Half - (y + 1) * span,
         east |-> (x + 1) * span - Half, west |-> x * span - Half]

\* get_tiles_in_bounds: the tiles from the one of the north-west corner to the
\* one of the south-east corner, column by column; an empty range gives none.
get_tiles_in_bounds(north, south, east, west, zoom) ==
    LET nw == latlng_to_tile(north, west, zoom)
        se == latlng_to_tile(south, east, zoom)
        cols == Max(0, se[1] - nw[1] + 1)
        rows == Max(0, se[2] - nw[2] + 1)
    IN  [i \in 1 .. cols * rows |->
            [x |-> nw[1] + ((i - 1) \div rows), y |-> nw[2] + ((i - 1) % rows), z |-> zoom]]

\* Mutant: the corners taken as south-west and north-east.
get_tile_matrix_size_swapped(north, south, east, west, zoom) ==
    LET nw == latlng_to_tile(south, west, zoom)
        se == latlng_to_tile(north, east, zoom)
    IN  [x_min |-> nw[1], y_min |-> nw[2], x_max |-> se[1], y_max |-> se[2],
         cols |-> se[1] - nw[1] + 1, rows |-> se[2] - nw[2] + 1]

\* get_tile_matrix_size: the corner tiles and the size of the grid they span.
get_tile_matrix_size(north, south, east, west, zoom) ==
    LET nw == latlng_to_tile(north, west, zoom)
        se == latlng_to_tile(south, east, zoom)
    IN  [x_min |-> nw[1], y_min |-> nw[2], x_max |-> se[1], y_max |-> se[2],
         cols |-> se[1] - nw[1] + 1, rows |-> se[2] - nw[2] + 1]

\* estimate_tile_count: the product of the two spans, without listing a tile.
estimate_tile_count(north, south, east, west, zoom) ==
    LET nw == latlng_to_tile(north, west, zoom)
        se == latlng_to_tile(south, east, zoom)
    IN  (se[1] - nw[1] + 1) * (se[2] - nw[2] + 1)

\* The default of get_optimal_zoom's max_tiles.
DefaultMaxTiles == 1000

\* The loop of get_optimal_zoom from `zoom` down to 1, and its final return 1.
RECURSIVE OptimalZoomFrom(_, _, _, _, _, _)
OptimalZoomFrom(zoom, north, south, east, west, max_tiles) ==
    IF zoom < 1 THEN 1
    ELSE IF estimate_tile_count(north, south, east, west, zoom) <= max_tiles THEN zoom
    ELSE OptimalZoomFrom(zoom - 1, north, south, east, west, max_tiles)

\* The same search upward from `zoom`.
RECURSIVE LowestZoomFrom(_, _, _, _, _, _)
LowestZoomFrom(zoom, north, south, east, west, max_tiles) ==
    IF zoom > MaxZoom THEN 1
    ELSE IF estimate_tile_count(north, south, east, west, zoom) <= max_tiles THEN zoom
    ELSE LowestZoomFrom(zoom + 1, north, south, east, west, max_tiles)

\* Mutant: the search run upward from zoom 1.
get_optimal_zoom_lowest(north, south, east, west, max_tiles) ==
    LowestZoomFrom(1, north, south, east, west, max_tiles)

\* get_optimal_zoom: for zoom in range(top, 0, -1), the first zoom whose
\* estimate is within max_tiles; 1 when the loop ends without one.
get_optimal_zoom(north, south, east, west, max_tiles) ==
    OptimalZoomFrom(MaxZoom, north, south, east, west, max_tiles)

\* The latitudes of the model: 90 and -90 degrees, the limit constant, the
\* edge of the map, and points between.
Lats == {- LatLimit - 1, - LatLimit, - Half, - 3, 0, 5, Half, LatLimit, LatLimit + 1}

\* The longitudes of the model: -180 and 180, one beyond each, points between.
Lngs == {- Half - 1, - Half, - 7, 0, 2, Half - 1, Half, Half + 1}

\* The max_tiles a caller of get_optimal_zoom passes.
MaxTilesValues == {0, 1, 3, 6, 100, DefaultMaxTiles}

\* The longest tile list get_tiles_in_bounds is asked for in the model.
MaxListed == 16

\* The arguments of the calls of tile.py, drawn before the call.
TileInit ==
    /\ BatchIdle
    /\ TaskIdle
    /\ args \in [north : Lats, south : Lats, east : Lngs, west : Lngs,
                 zoom : 0 .. MaxZoom, max_tiles : {DefaultMaxTiles}]
    /\ called = "none"
    /\ ret = None

\* latlng_to_tile(north, west, zoom) is called.
LatLngToTile ==
    /\ called = "none"
    /\ called' = "latlng_to_tile"
    /\ ret' = latlng_to_tile(args.north, args.west, args.zoom)
    /\ UNCHANGED << batch_vars, task_vars, poll_vars, args >>

\* tile_to_latlng is called on the tile latlng_to_tile returned.
TileToLatLng ==
    /\ called = "latlng_to_tile"
    /\ called' = "tile_to_latlng"
    /\ ret' = tile_to_latlng(ret[1], ret[2], args.zoom)
    /\ UNCHANGED << batch_vars, task_vars, poll_vars, args >>

\* get_tiles_in_bounds is called on a region of at most MaxListed tiles.
GetTilesInBounds ==
    /\ called = "none"
    /\ estimate_tile_count(args.north, args.south, args.east, args.west, args.zoom) <= MaxListed
    /\ called' = "get_tiles_in_bounds"
    /\ ret' = get_tiles_in_bounds(args.north, args.south, args.east, args.west, args.zoom)
    /\ UNCHANGED << batch_vars, task_vars, poll_vars, args >>

\* get_tile_matrix_size is called.
GetTileMatrixSize ==
    /\ called = "none"
    /\ called' = "get_tile_matrix_size"
    /\ ret' = get_tile_matrix_size(args.north, args.south, args.east, args.west, args.zoom)
    /\ UNCHANGED << batch_vars, task_vars, poll_vars, args >>

\* estimate_tile_count is called.
EstimateTileCount ==
    /\ called = "none"
    /\ called' = "estimate_tile_count"
    /\ ret' = estimate_tile_count(args.north, args.south, args.east, args.west, args.zoom)
    /\ UNCHANGED << batch_vars, task_vars, poll_vars, args >>

\* get_optimal_zoom is called with the caller's max_tiles.
GetOptimalZoom(max_tiles) ==
    /\ called = "none"
    /\ called' = "get_optimal_zoom"
    /\ args' = [args EXCEPT !.max_tiles = max_tiles]
    /\ ret' = get_optimal_zoom(args.north, args.south, args.east, args.west, max_tiles)
    /\ UNCHANGED << batch_vars, task_vars, poll_vars >>

\* int((q - base) * TILE_SIZE): the pixel offset of a fractional tile
\* coordinate from the first tile of the grid.
PixelOffset(q, base) == int(Frac((q.num - base * q.den) * TILE_SIZE, q.den))

\* The crop rectangle of both download routes: the pixel offsets of the
\* requested corners in the merged canvas, each clamped with max(0, min(v, size)).
CropRectangle(north, south, east, west, zoom) ==
    LET nw == latlng_to_tile_float(north, west, zoom)
        se == latlng_to_tile_float(south, east, zoom)
        grid == get_tile_matrix_size(north, south, east, west, zoom)
        width == grid.cols * TILE_SIZE
        height == grid.rows * TILE_SIZE
    IN  [left |-> Max(0, Min(PixelOffset(nw[1], grid.x_min), width)),
         top |-> Max(0, Min(PixelOffset(nw[2], grid.y_min), height)),
         right |-> Max(0, Min(PixelOffset(se[1], grid.x_min), width)),
         bottom |-> Max(0, Min(PixelOffset(se[2], grid.y_min), height)),
         width |-> width, height |-> height]

\* The units one pixel of a zoom covers.
UnitsPerPixel(zoom) == (2 * Half) \div ((2 ^ zoom) * TILE_SIZE)

\* The canvas merge_tiles returns for the grid of a region, held by its size
\* and the geographic extent its pixels cover: from the west and north edge of
\* the first tile to the east and south edge of the last.
MergedCanvas(north, south, east, west, zoom) ==
    LET grid == get_tile_matrix_size(north, south, east, west, zoom)
        first == tile_to_latlng(grid.x_min, grid.y_min, zoom)
        last == tile_to_latlng(grid.x_max, grid.y_max, zoom)
    IN  [width |-> grid.cols * TILE_SIZE, height |-> grid.rows * TILE_SIZE,
         extent |-> [north |-> first.north, south |-> last.south,
                     east |-> last.east, west |-> first.west]]

\* Image.crop((left, top, right, bottom)): the pixels of the box.
crop(image, box, zoom) ==
    [width |-> box.right - box.left, height |-> box.bottom - box.top,
     extent |-> [north |-> image.extent.north - box.top * UnitsPerPixel(zoom),
                 south |-> image.extent.north - box.bottom * UnitsPerPixel(zoom),
                 east |-> image.extent.west + box.right * UnitsPerPixel(zoom),
                 west |-> image.extent.west + box.left * UnitsPerPixel(zoom)]]

\* Mutant: the crop applied whatever the rectangle.
CropStepAlways(image, box, zoom) == crop(image, box, zoom)

\* `if right > left and bottom > top: merged_image = merged_image.crop(...)`.
CropStep(image, box, zoom) ==
    IF box.right > box.left /\ box.bottom > box.top THEN crop(image, box, zoom)
    ELSE image

\* The routes get as far as merging only with a tile in the result mapping,
\* so with a tile list that is not empty, and with a zoom the request model
\* admits.
ReachesMerge(a) ==
    /\ a.zoom >= 1
    /\ Len(get_tiles_in_bounds(a.north, a.south, a.east, a.west, a.zoom)) >= 1

\* The routes compute the crop rectangle of the merged canvas.
ComputeCropRectangle ==
    /\ called = "none"
    /\ estimate_tile_count(args.north, args.south, args.east, args.west, args.zoom) <= MaxListed
    /\ ReachesMerge(args)
    /\ called' = "crop_rectangle"
    /\ ret' = CropRectangle(args.north, args.south, args.east, args.west, args.zoom)
    /\ UNCHANGED << batch_vars, task_vars, poll_vars, args >>

\* The routes crop the canvas, or skip the crop, and hand the bitmap on to the
\* mask and the export together with the bounds of the request.
CropCanvas ==
    /\ called = "crop_rectangle"
    /\ called' = "crop"
    /\ ret' = [image |-> CropStep(MergedCanvas(args.north, args.south, args.east, args.west,
                                               args.zoom), ret, args.zoom),
               bounds |-> [north |-> args.north, south |-> args.south,
                           east |-> args.east, west |-> args.west],
               cropped |-> ret.right > ret.left /\ ret.bottom > ret.top]
    /\ UNCHANGED << batch_vars, task_vars, poll_vars, args >>

TileNext ==
    \/ LatLngToTile
    \/ TileToLatLng
    \/ GetTilesInBounds
    \/ GetTileMatrixSize
    \/ EstimateTileCount
    \/ ComputeCropRectangle
    \/ CropCanvas
    \/ \E max_tiles \in MaxTilesValues : GetOptimalZoom(max_tiles)

\* One call of a function of tile.py on drawn arguments.
TileSpec == TileInit /\ [][TileNext]_vars

\* ---------------------------------------------------------------- Part 5
\* merger.py.

\* The largest number of columns and of rows of a grid handed to merge_tiles.
MaxSide == 2

\* A bitmap is held by what it shows and its size: the empty content is plain
\* white, << x, y >> is the picture of tile (x, y), and a resampled picture has
\* the size it was resampled to appended.
White(size) == [content |-> << >>, size |-> size]
Picture(x, y, size) == [content |-> << x, y >>, size |-> size]

\* Image.resize: plain white stays plain white, a picture becomes another one.
resize(image, size) ==
    IF image.content = << >> THEN White(size)
    ELSE [content |-> Append(image.content, size[1]), size |-> size]

\* create_blank_tile: a white tile of TILE_SIZE x TILE_SIZE.
create_blank_tile == White(<< TILE_SIZE, TILE_SIZE >>)

\* What a tile server answered for the tiles of one batch: pictures of the
\* right size, pictures of twice the size, or plain white tiles.
Palettes == {"plain", "large", "white"}
BitmapAt(palette, x, y) ==
    IF palette = "plain" THEN Picture(x, y, << TILE_SIZE, TILE_SIZE >>)
    ELSE IF palette = "large" THEN Picture(x, y, << 2 * TILE_SIZE, 2 * TILE_SIZE >>)
    ELSE White(<< TILE_SIZE, TILE_SIZE >>)

\* The tile a cell of the grid shows: the mapped image, resized when its size
\* is not the tile size, or a blank tile when the mapping has none.
CellImage(images, x, y) ==
    IF << x, y >> \in DOMAIN images
    THEN IF images[<< x, y >>].size # << TILE_SIZE, TILE_SIZE >>
         THEN resize(images[<< x, y >>], << TILE_SIZE, TILE_SIZE >>)
         ELSE images[<< x, y >>]
    ELSE create_blank_tile

\* Mutant: the tiles pasted with the two offsets exchanged.
merge_tiles_transposed(images, x_min, y_min, x_max, y_max) ==
    LET cols == x_max - x_min + 1
        rows == y_max - y_min + 1
    IN  [width |-> cols * TILE_SIZE, height |-> rows * TILE_SIZE,
         cells |-> [p \in {<< (x - x_min) * TILE_SIZE, (y - y_min) * TILE_SIZE >> :
                              x \in x_min .. x_max, y \in y_min .. y_max} |->
                      CellImage(images, x_min + (p[2] \div TILE_SIZE),
                                y_min + (p[1] \div TILE_SIZE))]]

\* merge_tiles: a white canvas of cols * TILE_SIZE by rows * TILE_SIZE, and for
\* every (x, y) of the grid the tile pasted at ((x - x_min) * TILE_SIZE,
\* (y - y_min) * TILE_SIZE). The canvas is held by the tile under each offset.
merge_tiles(images, x_min, y_min, x_max, y_max) ==
    LET cols == x_max - x_min + 1
        rows == y_max - y_min + 1
    IN  [width |-> cols * TILE_SIZE, height |-> rows * TILE_SIZE,
         cells |-> [p \in {<< (x - x_min) * TILE_SIZE, (y - y_min) * TILE_SIZE >> :
                              x \in x_min .. x_max, y \in y_min .. y_max} |->
                      CellImage(images, x_min + (p[1] \div TILE_SIZE),
                                y_min + (p[2] \div TILE_SIZE))]]

\* The grids of the model, and for a grid the positions a mapping may have a
\* key at: the grid and one column east of it.
Grids ==
    {g \in [x_min : {0, 5}, y_min : {0, 3}, x_max : 0 .. 5 + MaxSide, y_max : 0 .. 3 + MaxSide] :
        /\ g.x_max - g.x_min \in 0 .. MaxSide - 1
        /\ g.y_max - g.y_min \in 0 .. MaxSide - 1}
Window(g) == (g.x_min .. g.x_max + 1) \X (g.y_min .. g.y_max)

\* The arguments of one call of merge_tiles, drawn before the call.
MergeInit ==
    /\ BatchIdle
    /\ TaskIdle
    /\ \E g \in Grids : \E keys \in SUBSET Window(g) : \E palette \in Palettes :
          args = [tile_images |-> [k \in keys |-> BitmapAt(palette, k[1], k[2])],
                  x_min |-> g.x_min, y_min |-> g.y_min, x_max |-> g.x_max, y_max |-> g.y_max]
    /\ called = "none"
    /\ ret = None

\* merge_tiles is called.
MergeTiles ==
    /\ called = "none"
    /\ called' = "merge_tiles"
    /\ ret' = merge_tiles(args.tile_images, args.x_min, args.y_min, args.x_max, args.y_max)
    /\ UNCHANGED << batch_vars, task_vars, poll_vars, args >>

MergeNext ==
    \/ MergeTiles

\* One call of merge_tiles on a drawn grid and mapping.
MergeSpec == MergeInit /\ [][MergeNext]_vars

\* ---------------------------------------------------------------- Part 6
\* The routes of app/api/download.py that name a task, next to the background
\* tasks of Part 2.

\* Most progress streams opened in one behaviour.
MaxStreams == 2

\* The requests the tasks of this part are submitted with.
PollRequests ==
    {req \in Requests : /\ req.shape = "bounds"
                        /\ req.ordered
                        /\ req.source = "osm"
                        /\ req.format = "png"
                        /\ req.tile_count = 4}

\* A client learns a task id from the answer of download_tiles_with_progress.
\* The task was handed to asyncio.create_task before that answer was sent, and
\* the event loop runs it, as far as its first await or its end, before it
\* handles a request that arrives later: _download_task has no await before
\* the construction of its TileDownloader.
RanToAwait(id) == task_pc[id] \notin {"created", "create_downloader"}

\* Mutant: the stream ends on completed only.
StreamEndsOnCompleted(status) == status = "completed"

\* if task['status'] in ['completed', 'failed']: break
StreamEnds(status) == status \in {"completed", "failed"}

\* task.get('filename', 'map.tif'), as the extension the filename ends in.
ExtensionOf(e) == IF "filename" \in DOMAIN e THEN e.filename ELSE ".tif"

\* The checks get_download_result and save_to_file make on the entry of the
\* task: the detail of the error raised, or "None".
ResultCheck(e) ==
    IF e.status # "completed" THEN "Download not completed"
    ELSE IF "data" \notin DOMAIN e THEN "File data not found"
    ELSE "None"

\* del tasks[task_id]
RemoveEntry(entries, id) == [k \in DOMAIN entries \ {id} |-> entries[k]]

\* Mutant: save_to_file deletes the entry whatever the outcome.
EntriesAfterSaveAlways(entries, id, outcome) == RemoveEntry(entries, id)

\* The registry after save_to_file: the entry is deleted once the file is written.
EntriesAfterSave(entries, id, outcome) ==
    IF outcome = "success" THEN RemoveEntry(entries, id) ELSE entries

\* A stream suspended at its yield holds the entry it read: when the entry
\* leaves the registry the stream keeps the status the entry had.
Detach(id) ==
    [s \in DOMAIN streams |->
        IF streams[s].task_id = id /\ streams[s].pc = "yield" /\ id \in DOMAIN registry
        THEN [streams[s] EXCEPT !.held = registry[id].status]
        ELSE streams[s]]

\* task['status'] as the stream reads it after its yield.
HeldStatus(s) ==
    IF streams[s].held # "none" THEN streams[s].held
    ELSE registry[streams[s].task_id].status

\* GET /api/download/progress/{task_id}: 404 for an unknown task, else a
\* stream whose generator has sent its keepalive and is about to poll.
OpenStream(id) ==
    /\ IF id \in DOMAIN registry
       THEN /\ RanToAwait(id)
            /\ Len(streams) < MaxStreams
            /\ streams' = Append(streams, [task_id |-> id, pc |-> "poll",
                                           event |-> "none", held |-> "none"])
            /\ poll_response' = Answer("download_progress", id, "200", "text/event-stream")
       ELSE /\ poll_response' = Answer("download_progress", id, "404", "Task not found")
            /\ UNCHANGED streams
    /\ UNCHANGED << batch_vars, task_vars, pure_vars, cleanup >>

\* One turn of the generator up to its yield: the stream ends if the task has
\* left the registry, else a data event with the status of the task is built
\* and handed to the response.
StreamPoll(s) ==
    /\ streams[s].pc = "poll"
    /\ streams' = [streams EXCEPT ![s] =
          IF streams[s].task_id \in DOMAIN registry
          THEN [streams[s] EXCEPT !.pc = "yield",
                                  !.event = registry[streams[s].task_id].status]
          ELSE [streams[s] EXCEPT !.pc = "closed"]]
    /\ UNCHANGED << batch_vars, task_vars, pure_vars, poll_response, cleanup >>

\* The generator resumes after its yield: it reads the status of the entry
\* again and ends on a terminal one, else sleeps and polls again.
StreamResume(s) ==
    /\ streams[s].pc = "yield"
    /\ streams' = [streams EXCEPT ![s] =
          [streams[s] EXCEPT !.pc = IF StreamEnds(HeldStatus(s)) THEN "closed" ELSE "poll",
                             !.held = "none"]]
    /\ UNCHANGED << batch_vars, task_vars, pure_vars, poll_response, cleanup >>

\* GET /api/download/result/{task_id}: 404, 400 or 500, else the bytes under
\* the content type of the filename, and a _cleanup_task is scheduled.
GetDownloadResult(id) ==
    /\ id \in DOMAIN registry => RanToAwait(id)
    /\ IF id \notin DOMAIN registry
       THEN /\ poll_response' = Answer("download_result", id, "404", "Task not found")
            /\ UNCHANGED cleanup
       ELSE IF ResultCheck(registry[id]) = "Download not completed"
       THEN /\ poll_response' = Answer("download_result", id, "400", ResultCheck(registry[id]))
            /\ UNCHANGED cleanup
       ELSE IF ResultCheck(registry[id]) = "File data not found"
       THEN /\ poll_response' = Answer("download_result", id, "500", ResultCheck(registry[id]))
            /\ UNCHANGED cleanup
       ELSE /\ poll_response' = Answer("download_result", id, "200",
                                       ContentTypeOfFilename(ExtensionOf(registry[id])))
            /\ cleanup' = cleanup \cup {id}
    /\ UNCHANGED << batch_vars, task_vars, pure_vars, streams >>

\* What save_to_file comes to: the detail of the error it raises, or "success".
\* written says whether makedirs and the write of the file went through.
SaveOutcome(id, written) ==
    IF id \notin DOMAIN registry THEN "Task not found"
    ELSE IF ResultCheck(registry[id]) # "None" THEN ResultCheck(registry[id])
    ELSE IF written THEN "success"
    ELSE "Failed to save file"

\* The status code save_to_file answers an outcome with.
SaveCode(outcome) ==
    IF outcome = "success" THEN "200"
    ELSE IF outcome = "Task not found" THEN "404"
    ELSE IF outcome = "Download not completed" THEN "400"
    ELSE "500"

\* POST /api/download/save_to_file: the checks of the result route, then the
\* file is written and the entry deleted.
SaveToFile(id, written) ==
    /\ id \in DOMAIN registry => RanToAwait(id)
    /\ registry' = EntriesAfterSave(registry, id, SaveOutcome(id, written))
    /\ streams' = IF id \in DOMAIN registry' THEN streams ELSE Detach(id)
    /\ poll_response' = Answer("save_to_file", id, SaveCode(SaveOutcome(id, written)),
                               SaveOutcome(id, written))
    /\ UNCHANGED << batch_vars, pure_vars, task_pc, last_response, last_request, cleanup >>

\* _cleanup_task after its delay: the entry is deleted if it is still there.
\* Only get_download_result schedules it, and only for a completed task; no
\* task completes (see TaskCreateDownloader), so no behaviour takes this step
\* and the specifications below leave it out.
Cleanup(id) ==
    /\ id \in cleanup
    /\ cleanup' = cleanup \ {id}
    /\ registry' = RemoveEntry(registry, id)
    /\ streams' = Detach(id)
    /\ UNCHANGED << batch_vars, pure_vars, task_pc, last_response, last_request,
                    poll_response >>

PollNext ==
    \/ \E req \in PollRequests : SubmitWithProgress(req)
    \/ \E id \in DOMAIN registry : TaskStart(id)
    \/ \E id \in DOMAIN registry : TaskCreateDownloader(id)
    \/ \E id \in 1 .. MaxTasks : OpenStream(id)
    \/ \E s \in DOMAIN streams : StreamPoll(s)
    \/ \E s \in DOMAIN streams : StreamResume(s)
    \/ \E id \in 1 .. MaxTasks : GetDownloadResult(id)
    \/ \E id \in 1 .. MaxTasks : \E written \in BOOLEAN : SaveToFile(id, written)

\* The registry, its background tasks and the requests that name a task.
PollSpec == TaskInit /\ [][PollNext]_vars

\* The same under the scheduling of the event loop: a task that can run runs,
\* a response that has data to send sends it, and a sleep ends.
FairPollSpec ==
    /\ PollSpec
    /\ \A id \in 1 .. MaxTasks :
          /\ WF_vars(id \in DOMAIN registry /\ TaskStart(id))
          /\ WF_vars(id \in DOMAIN registry /\ TaskCreateDownloader(id))
    /\ \A s \in 1 .. MaxStreams :
          /\ WF_vars(s \in DOMAIN streams /\ StreamPoll(s))
          /\ WF_vars(s \in DOMAIN streams /\ StreamResume(s))

\* ------------------------------------------------------------ properties
\* The tiles holding an admission slot: jitter sleep or request in flight.
InFlight == Cardinality({t \in Tiles : pc[t] \in {"jitter", "request"}})

\* The tiles whose result the as_completed loop has taken.
Resolved == {t \in Tiles : pc[t] = "done" /\ \A i \in 1 .. Len(done_queue) : done_queue[i] # t}

\* C1: at every instant of a batch at most max_concurrent attempts hold an
\* admission slot, for every max_concurrent >= 1 given to the downloader (and
\* for the default); with max_concurrent = 1 no two are in flight together.
C1_InFlightAtMostMaxConcurrent ==
    /\ InFlight <= max_concurrent
    /\ InFlight + semaphore = (IF batch = "idle" THEN 0 ELSE max_concurrent)
    /\ (arg_max_concurrent # None /\ arg_max_concurrent[1] >= 1)
          => InFlight <= arg_max_concurrent[1]

\* C1 witness: under max_concurrent = 1 one attempt is in flight, the gate is
\* closed and another tile waits at it.
C1_Witness ==
    /\ arg_max_concurrent = Some(1)
    /\ InFlight = 1
    /\ semaphore = 0
    /\ \E t \in Tiles : pc[t] = "gate"

\* C2 as claimed: a tile makes at most retryCount + 1 attempts for every
\* retryCount >= 0 given to the downloader.
C2_AttemptsAtMostConfigured ==
    arg_retry_times # None => \A t \in Tiles : sent[t] <= arg_retry_times[1] + 1

\* C3: a tile that exhausts its retries is counted as failed exactly once, is
\* absent from the result mapping and never stops the batch: download_tiles does
\* not raise, and it returns with every tile resolved.
C3_ExhaustedTileIsNonFatal ==
    /\ batch # "raised"
    /\ \A t \in Tiles : (pc[t] = "done" /\ ~ result[t].success) =>
          /\ sent[t] = retry_times + 1
          /\ TileXY(t) \notin DOMAIN tile_images
    /\ progress.failed = Cardinality({t \in Resolved : ~ result[t].success})
    /\ batch = "returned" => Resolved = Tiles

\* C3 witness: a batch that returned with one tile failed and another fetched
\* after the failure was recorded.
C3_Witness ==
    /\ batch = "returned"
    /\ progress.failed = 1
    /\ \E t \in Tiles : result[t].success /\ TileXY(t) \in DOMAIN tile_images

\* C5: a tile one of whose attempts succeeds after earlier ones failed is in the
\* result mapping with the pixels of the successful answer, is counted in
\* completed exactly once and never in failed.
C5_RetrySuccessIsKept ==
    /\ \A t \in Resolved : result[t].success =>
          /\ TileXY(t) \in DOMAIN tile_images
          /\ tile_images[TileXY(t)].px = body[t][1].px
          /\ tile_images[TileXY(t)].mode = "RGB"
    /\ progress.completed = Cardinality({t \in Resolved : result[t].success})
    /\ progress.failed = Cardinality({t \in Resolved : ~ result[t].success})

\* C5 witness: retry_times = 3, a tile whose third request succeeded after two
\* failures, resolved and returned.
C5_Witness ==
    /\ retry_times = 3
    /\ batch = "returned"
    /\ \E t \in Tiles : sent[t] = 3 /\ result[t].success /\ TileXY(t) \in DOMAIN tile_images

\* A step of a started batch keeps total and lowers neither counter.
ProgressStep ==
    batch # "idle" =>
        /\ progress'.total = progress.total
        /\ progress'.completed >= progress.completed
        /\ progress'.failed >= progress.failed

\* C6: completed + failed <= total in every state, total never changes after the
\* batch starts, and neither completed nor failed ever decreases.
C6_ProgressMonotonic ==
    /\ [](progress.completed + progress.failed <= progress.total)
    /\ [][ProgressStep]_vars

\* C6 witness: both counters have grown and every tile is counted.
C6_Witness ==
    /\ progress.completed >= 1
    /\ progress.failed >= 1
    /\ progress.completed + progress.failed = progress.total

\* C7: the observer is called once per resolved tile, after the tile has been
\* counted: the k-th call sees completed + failed = k, and a returned batch of n
\* tiles has made n calls.
C7_ObserverOncePerTile ==
    has_callback =>
        /\ Len(callback_log) = Cardinality(Resolved)
        /\ \A k \in 1 .. Len(callback_log) :
              callback_log[k].completed + callback_log[k].failed = k
        /\ Len(callback_log) > 0 =>
              /\ callback_log[Len(callback_log)].completed = progress.completed
              /\ callback_log[Len(callback_log)].failed = progress.failed
        /\ batch = "returned" => Len(callback_log) = ntiles

\* C7 witness: a returned batch of two tiles whose observer was called twice,
\* first with a failure counted, then with a success.
C7_Witness ==
    /\ has_callback
    /\ batch = "returned"
    /\ Len(callback_log) = 2
    /\ callback_log[1].failed = 1
    /\ callback_log[2].completed = 1

\* C8: download_tiles returns only with every tile resolved, and it always
\* eventually returns.
C8_ReturnsWithAllResolved ==
    /\ [](batch = "returned" =>
            /\ progress.completed + progress.failed = progress.total
            /\ progress.total = ntiles
            /\ Resolved = Tiles)
    /\ <>(batch = "returned")

\* C8 witness: a batch under max_concurrent = 1 returned after a tile had to
\* retry while another one waited.
C8_Witness ==
    /\ batch = "returned"
    /\ arg_max_concurrent = Some(1)
    /\ ntiles >= 2
    /\ \E t \in Tiles : sent[t] >= 2

Rank(status) ==
    CASE status = "pending" -> 0
      [] status = "downloading" -> 1
      [] status = "merging" -> 2
      [] status = "exporting" -> 3
      [] status = "completed" -> 4
      [] OTHER -> 5

\* A status change that moves forward, or from a non-terminal status to failed.
StatusMovesForward(old, new) ==
    \/ new = old
    \/ /\ old \notin {"completed", "failed"}
       /\ \/ new = "failed"
          \/ new \in {"downloading", "merging", "exporting", "completed"} /\ Rank(new) > Rank(old)

\* C9: a task's status only moves forward along pending, downloading, merging,
\* exporting, completed, or from a non-terminal status to failed; a completed or
\* failed task keeps its status; a new entry starts pending.
C9_StatusOnlyForward ==
    [][ /\ \A id \in DOMAIN registry \cap DOMAIN registry' :
              StatusMovesForward(registry[id].status, registry'[id].status)
        /\ \A id \in DOMAIN registry' \ DOMAIN registry :
              registry'[id].status = "pending" ]_vars

\* C9 witness: one task has gone pending, downloading, failed while a later one
\* is downloading.
C9_Witness ==
    \E a, b \in DOMAIN registry :
        /\ registry[a].status = "failed"
        /\ registry[b].status = "downloading"

\* The progress fields of a task entry.
ProgressFields(e) == << e.completed, e.failed, e.progress >>

StatusOf(id) == IF id \in DOMAIN registry THEN registry[id].status ELSE "none"

\* C11 as claimed: the task of an accepted download_with_progress request whose
\* tiles the servers are ready to serve goes on from pending through
\* downloading, merging and exporting and is eventually completed.
C11_AcceptedTaskCompletes ==
    \A id \in 1 .. MaxTasks :
        (id \in DOMAIN registry) ~> (StatusOf(id) = "completed")

\* A request has been received, and its region needs more tiles than the ceiling.
OverCeiling(call) == call.route # "none" /\ call.request.tile_count > MaxTileCount

\* C12: on both entry points a request whose estimated tile count is over the
\* ceiling is answered with a 400 before any task is registered for it, any
\* downloader created or any tile fetched; no entry of the registry has a total
\* over the ceiling.
C12_OverCeilingRejected ==
    /\ [](/\ OverCeiling(last_request) => last_response.code = "400"
          /\ \A id \in DOMAIN registry : registry[id].total <= MaxTileCount)
    /\ [][OverCeiling(last_request') /\ last_request' # last_request
             => registry' = registry /\ task_pc' = task_pc]_vars

\* C12 witness: with a task already registered, download_with_progress has
\* answered a request over the ceiling with 400.
C12_Witness ==
    /\ OverCeiling(last_request)
    /\ last_request.route = "download_with_progress"
    /\ last_response.code = "400"
    /\ registry # << >>

\* A request has been received that names an unknown source or an unsupported
\* output format, or carries neither bounds nor polygon.
InvalidInput(call) ==
    /\ call.route # "none"
    /\ \/ call.request.source \notin KnownSources
       \/ call.request.format \notin KnownFormats
       \/ call.request.shape = "none"

\* C13 as claimed: on both entry points a request with an unknown source, an
\* unsupported output format or neither bounds nor polygon is answered with a
\* 400 and registers no task.
C13_InvalidInputRejected ==
    InvalidInput(last_request) => last_response.code = "400"

\* A request has been received whose bounding box has west > east.
WestOverEast(call) == call.route # "none" /\ ~ call.request.ordered

\* C14 as claimed: a bounding box with west > east is answered with a 400 on
\* every entry point, before any tile is scheduled or any task registered.
C14_WestOverEastRejected ==
    WestOverEast(last_request) => last_response.code = "400"

\* C15: export_image asked for geotiff never raises: when rasterio is missing
\* or its encoder fails it returns the image as PNG bytes with the content type
\* image/png, and GeoTIFF bytes with image/tiff otherwise.
C15_GeotiffFallsBackToPng ==
    (called = "export_image" /\ Lower(args.format) = "geotiff") =>
        /\ ret.raised = "None"
        /\ ret.value =
              IF args.backend.rasterio_available /\ ~ args.backend.encode_fails
              THEN << [encoding |-> "GTiff", mode |-> "RGB", size |-> args.image.size], "image/tiff" >>
              ELSE << [encoding |-> "PNG", mode |-> args.image.mode, size |-> args.image.size],
                      "image/png" >>

\* C15 witness: geotiff was asked for without rasterio, and PNG bytes came back.
C15_Witness ==
    /\ called = "export_image"
    /\ args.format = "geotiff"
    /\ ~ args.backend.rasterio_available
    /\ ret.raised = "None"
    /\ ret.value[2] = "image/png"

\* The tile indices of a zoom: 0 .. 2^zoom - 1.
TileIndices(zoom) == 0 .. (2 ^ zoom) - 1

\* C16: for every latitude and longitude, in range or not, and every zoom,
\* latlng_to_tile returns x and y within 0 .. 2^zoom - 1, and so is every tile
\* get_tiles_in_bounds lists.
C16_TileIndexInRange ==
    /\ called = "latlng_to_tile" =>
          ret[1] \in TileIndices(args.zoom) /\ ret[2] \in TileIndices(args.zoom)
    /\ called = "get_tiles_in_bounds" =>
          \A i \in DOMAIN ret :
              /\ ret[i].x \in TileIndices(args.zoom)
              /\ ret[i].y \in TileIndices(args.zoom)
              /\ ret[i].z = args.zoom

\* C16 witness: the point at lng = 180 on the southern limit latitude, whose
\* unclamped indices are 2^zoom, is given the last tile of the deepest zoom.
C16_Witness ==
    /\ called = "latlng_to_tile"
    /\ args.west = Half
    /\ args.north = - LatLimit
    /\ args.zoom = MaxZoom
    /\ ret = << (2 ^ MaxZoom) - 1, (2 ^ MaxZoom) - 1 >>

\* The bounds of a tile contain a point, edges included.
Contains(bounds, lat, lng) ==
    /\ bounds.south <= lat /\ lat <= bounds.north
    /\ bounds.west <= lng /\ lng <= bounds.east

\* C17 as claimed: for every latitude between the two limit constants, every
\* longitude in -180 .. 180 and every zoom, the bounds tile_to_latlng gives for
\* the tile of latlng_to_tile contain the point.
C17_RoundTripContainsUpToLimit ==
    (/\ called = "tile_to_latlng"
     /\ - LatLimit <= args.north /\ args.north <= LatLimit
     /\ - Half <= args.west /\ args.west <= Half)
        => Contains(ret, args.north, args.west)

\* C17 amended: the same for every latitude within the map, from
\* -atan(sinh(pi)) to atan(sinh(pi)) = 85.0511287798066 degrees.
C17_RoundTripContainsWithinMap ==
    (/\ called = "tile_to_latlng"
     /\ - Half <= args.north /\ args.north <= Half
     /\ - Half <= args.west /\ args.west <= Half)
        => Contains(ret, args.north, args.west)

\* C17 witness: the round trip of a point at lng = 180 on the northern edge of
\* the map, at the deepest zoom, gave bounds around the point.
C17_Witness ==
    /\ called = "tile_to_latlng"
    /\ args.north = Half
    /\ args.west = Half
    /\ args.zoom = MaxZoom
    /\ Contains(ret, args.north, args.west)

\* C18: for every box with south <= north and west <= east and every zoom from
\* 1 up, get_tile_matrix_size returns the tiles of the north-west and the
\* south-east corner with cols = x_max - x_min + 1 and rows = y_max - y_min + 1,
\* both at least 1.
C18_MatrixSizeAtLeastOne ==
    (/\ called = "get_tile_matrix_size"
     /\ args.south <= args.north
     /\ args.west <= args.east
     /\ args.zoom >= 1)
        => /\ << ret.x_min, ret.y_min >> = latlng_to_tile(args.north, args.west, args.zoom)
           /\ << ret.x_max, ret.y_max >> = latlng_to_tile(args.south, args.east, args.zoom)
           /\ ret.cols = ret.x_max - ret.x_min + 1
           /\ ret.rows = ret.y_max - ret.y_min + 1
           /\ ret.cols >= 1
           /\ ret.rows >= 1

\* C18 witness: a box from pole to pole and from beyond -180 to beyond 180 at
\* the deepest zoom spans the whole grid.
C18_Witness ==
    /\ called = "get_tile_matrix_size"
    /\ args.north = LatLimit + 1 /\ args.south = - LatLimit - 1
    /\ args.west = - Half - 1 /\ args.east = Half + 1
    /\ args.zoom = MaxZoom
    /\ ret.cols = 2 ^ MaxZoom
    /\ ret.rows = 2 ^ MaxZoom

\* The zooms from 1 up whose estimated tile count is within max_tiles.
QualifyingZooms(a) ==
    {zoom \in 1 .. MaxZoom :
        estimate_tile_count(a.north, a.south, a.east, a.west, zoom) <= a.max_tiles}

\* C19: get_optimal_zoom returns the highest zoom whose estimated tile count is
\* at most max_tiles, and 1 when no zoom qualifies; it always returns a zoom.
C19_OptimalZoomIsHighestQualifying ==
    called = "get_optimal_zoom" =>
        /\ ret \in 1 .. MaxZoom
        /\ QualifyingZooms(args) # {} =>
              /\ ret \in QualifyingZooms(args)
              /\ \A zoom \in QualifyingZooms(args) : zoom <= ret
        /\ QualifyingZooms(args) = {} => ret = 1

\* C19 witness: for the whole map and max_tiles = 100 the zooms 1, 2 and 3
\* qualify and 3 is returned.
C19_Witness ==
    /\ called = "get_optimal_zoom"
    /\ args.north = LatLimit /\ args.south = - LatLimit
    /\ args.west = - Half /\ args.east = Half
    /\ args.max_tiles = 100
    /\ QualifyingZooms(args) = {1, 2, 3}
    /\ ret = 3

\* The positions of the grid of a merge_tiles call, the pixel offset of a
\* position, and the mapping without its entries outside the grid.
GridPositions(a) == (a.x_min .. a.x_max) \X (a.y_min .. a.y_max)
Offset(a, pos) == << (pos[1] - a.x_min) * TILE_SIZE, (pos[2] - a.y_min) * TILE_SIZE >>
InsideGrid(a) ==
    [k \in DOMAIN a.tile_images \cap GridPositions(a) |-> a.tile_images[k]]

\* The size of the canvas, the blank fill of the missing cells, and the
\* indifference to entries outside the grid.
CanvasFrame(a, canvas) ==
    /\ canvas.width = (a.x_max - a.x_min + 1) * TILE_SIZE
    /\ canvas.height = (a.y_max - a.y_min + 1) * TILE_SIZE
    /\ DOMAIN canvas.cells = {Offset(a, pos) : pos \in GridPositions(a)}
    /\ \A pos \in GridPositions(a) \ DOMAIN a.tile_images :
          canvas.cells[Offset(a, pos)] = create_blank_tile
    /\ canvas = merge_tiles(InsideGrid(a), a.x_min, a.y_min, a.x_max, a.y_max)

\* C20 as claimed: the canvas is cols * TILE_SIZE by rows * TILE_SIZE, the cell
\* of every grid position present in the mapping equals the mapped bitmap, the
\* cell of every absent position is the white blank, exactly the missing cells
\* are blank, and entries outside the grid change nothing.
C20_CellsEqualMappedBitmaps ==
    called = "merge_tiles" =>
        /\ CanvasFrame(args, ret)
        /\ \A pos \in GridPositions(args) \cap DOMAIN args.tile_images :
              /\ ret.cells[Offset(args, pos)] = args.tile_images[pos]
              /\ ret.cells[Offset(args, pos)] # create_blank_tile

\* C20 amended: the cell of a present position equals the mapped bitmap when
\* that is TILE_SIZE x TILE_SIZE and the bitmap resampled to that size when it
\* is not; a cell is blank exactly when its position is missing or its mapped
\* bitmap is itself plain white.
C20_CellsEqualFittedBitmaps ==
    called = "merge_tiles" =>
        /\ CanvasFrame(args, ret)
        /\ \A pos \in GridPositions(args) \cap DOMAIN args.tile_images :
              LET mapped == args.tile_images[pos]
                  cell == ret.cells[Offset(args, pos)]
              IN  /\ mapped.size = << TILE_SIZE, TILE_SIZE >> => cell = mapped
                  /\ mapped.size # << TILE_SIZE, TILE_SIZE >> =>
                        cell = resize(mapped, << TILE_SIZE, TILE_SIZE >>)
                  /\ cell = create_blank_tile <=> mapped.content = << >>

\* C20 witness: a grid of two columns and two rows was merged from a mapping of
\* right-sized pictures with one cell missing and one entry outside the grid.
C20_Witness ==
    /\ called = "merge_tiles"
    /\ args.x_max = args.x_min + 1
    /\ args.y_max = args.y_min + 1
    /\ Cardinality(GridPositions(args) \ DOMAIN args.tile_images) = 1
    /\ DOMAIN args.tile_images \ GridPositions(args) # {}
    /\ \A k \in DOMAIN args.tile_images : args.tile_images[k] = BitmapAt("plain", k[1], k[2])
    /\ ret.width = 2 * TILE_SIZE
    /\ Cardinality({p \in DOMAIN ret.cells : ret.cells[p] = create_blank_tile}) = 1

\* C21 as claimed: for every request that gets as far as the crop, the clamped
\* crop rectangle has 0 <= left <= right <= width and 0 <= top <= bottom <=
\* height of the canvas.
C21_CropRectangleOrdered ==
    called = "crop_rectangle" =>
        /\ 0 <= ret.left /\ ret.left <= ret.right /\ ret.right <= ret.width
        /\ 0 <= ret.top /\ ret.top <= ret.bottom /\ ret.bottom <= ret.height

\* The crop rectangle and the merged canvas of the region of a call.
RectangleOf(a) == CropRectangle(a.north, a.south, a.east, a.west, a.zoom)
CanvasOf(a) == MergedCanvas(a.north, a.south, a.east, a.west, a.zoom)

\* C22: when the clamped rectangle has right <= left or bottom <= top the crop
\* is skipped and the canvas handed on unchanged; the bitmap handed to the
\* export always has a width and a height above 0 and is never larger than the
\* canvas of cols * TILE_SIZE by rows * TILE_SIZE.
C22_DegenerateCropSkipped ==
    called = "crop" =>
        /\ (RectangleOf(args).right <= RectangleOf(args).left
              \/ RectangleOf(args).bottom <= RectangleOf(args).top) => ret.image = CanvasOf(args)
        /\ ret.image.width > 0 /\ ret.image.height > 0
        /\ ret.image.width <= CanvasOf(args).width
        /\ ret.image.height <= CanvasOf(args).height
        /\ CanvasOf(args).width =
              get_tile_matrix_size(args.north, args.south, args.east, args.west, args.zoom).cols
                 * TILE_SIZE
        /\ CanvasOf(args).height =
              get_tile_matrix_size(args.north, args.south, args.east, args.west, args.zoom).rows
                 * TILE_SIZE

\* C22 witness: a region of no height, north = south, gave a rectangle with
\* bottom = top, and the whole canvas was handed on.
C22_Witness ==
    /\ called = "crop"
    /\ args.north = args.south
    /\ args.west < args.east
    /\ RectangleOf(args).bottom = RectangleOf(args).top
    /\ RectangleOf(args).right > RectangleOf(args).left
    /\ ret.image = CanvasOf(args)

\* Two coordinates less than one pixel of the zoom apart.
WithinAPixel(u, v, zoom) == u - v < UnitsPerPixel(zoom) /\ v - u < UnitsPerPixel(zoom)

\* C23 as claimed: the bounds handed to the mask and the export together with
\* the bitmap are the geographic extent of that bitmap, to the pixel, also when
\* the crop was skipped or its rectangle clamped.
C23_BoundsAreExtentOfBitmap ==
    called = "crop" =>
        /\ WithinAPixel(ret.bounds.north, ret.image.extent.north, args.zoom)
        /\ WithinAPixel(ret.bounds.south, ret.image.extent.south, args.zoom)
        /\ WithinAPixel(ret.bounds.east, ret.image.extent.east, args.zoom)
        /\ WithinAPixel(ret.bounds.west, ret.image.extent.west, args.zoom)

ContentTypeOfEncoding(encoding) ==
    IF encoding = "GTiff" THEN "image/tiff"
    ELSE IF encoding = "PNG" THEN "image/png"
    ELSE "image/jpeg"

\* C26 as claimed: the content type get_download_result answers with names the
\* encoding export_image produced for the task, also when the GeoTIFF export
\* fell back to PNG.
C26_ContentTypeNamesEncoding ==
    called = "get_download_result" =>
        ret.content_type = ContentTypeOfEncoding(ret.data.encoding)

\* C27: a tile holds an admission slot only during one attempt, from the gate
\* through the jitter delay and the request: every end of an attempt, whatever
\* its outcome, gives the slot back before the backoff wait or the return of
\* the coroutine, and when download_tiles returns no slot is held.
C27_SlotHeldOnlyDuringAttempt ==
    /\ [](/\ batch # "idle" => max_concurrent - semaphore = InFlight
          /\ batch = "returned" => semaphore = max_concurrent /\ InFlight = 0)
    /\ [][ \A t \in Tiles :
              (pc[t] = "request" /\ pc'[t] # "request") =>
                  /\ pc'[t] \in {"backoff", "done"}
                  /\ semaphore' = semaphore + 1 ]_vars

\* C27 witness: a tile whose first request failed waits in its backoff sleep
\* while every slot of the gate is free.
C27_Witness ==
    /\ batch = "running"
    /\ \E t \in Tiles : pc[t] = "backoff" /\ sent[t] = 1
    /\ semaphore = max_concurrent

\* The bounds and zooms the request model admits: latitudes from -90 to 90,
\* longitudes from -180 to 180, zoom from 1 up; no order between the edges.
Admitted(a) ==
    /\ - Half <= a.west /\ a.west <= Half
    /\ - Half <= a.east /\ a.east <= Half
    /\ a.zoom >= 1

\* C29 as claimed: for all bounds the request model admits, south > north and
\* west > east included, the total stored for the task, estimate_tile_count,
\* is the number of tiles get_tiles_in_bounds lists for the background task.
C29_TotalIsNumberOfTiles ==
    (called = "get_tiles_in_bounds" /\ Admitted(args)) =>
        Len(ret) = estimate_tile_count(args.north, args.south, args.east, args.west, args.zoom)

\* The task a stream follows has ended and the stream has closed on a data
\* event that carries the status the task ended with.
ClosedOnTerminal(s) ==
    /\ s \in DOMAIN streams
    /\ streams[s].pc = "closed"
    /\ streams[s].event \in {"completed", "failed"}
    /\ streams[s].task_id \in DOMAIN registry
          => streams[s].event = registry[streams[s].task_id].status

====
